---- MODULE Spec2Model ----
(***************************************************************************)
(* TradingBot (lib/trading_bot.js): the execution scheduler (start/stop,   *)
(* timer ticks, the busy flag) and the indicator store (ticker, my_orders) *)
(* as a state machine over the Node event loop.                            *)
(*                                                                         *)
(* One action is one piece of synchronous JavaScript: a call of a public   *)
(* method, a callback of the exchange client, a timer callback, a          *)
(* setImmediate callback, or a promise reaction (a microtask).  Callbacks  *)
(* of the event loop (macrotasks) run only when no promise reaction is     *)
(* queued; method calls may come at any point, since the caller may itself *)
(* be running inside a task or a reaction.                                 *)
(*                                                                         *)
(* The timer is the `continuous` package: start() emits 'started' and      *)
(* begins firing, each firing calls options.callback and counts one run,   *)
(* the timer stops itself when options.limit runs are done, and stop()     *)
(* halts it; every halt emits 'stopped'.                                   *)
(*                                                                         *)
(* The scheduler and the indicator store share no field of the bot, so     *)
(* each is explored on its own: Spec runs the scheduler (SchedNext) and    *)
(* StoreSpec the store (StoreNext); Next is the whole bot.  LiveSpec is    *)
(* Spec under the event loop's fairness, CancelSpec runs cancel_order and  *)
(* cancel_all_orders beside start and stop, and OrdersSpec runs them       *)
(* beside refresh_indicators.                                              *)
(*                                                                         *)
(* ev and halted are history variables: ev names the step just taken, so   *)
(* that a property can speak of "the step in which the fetch failed", and  *)
(* halted remembers that a stop_trading has resolved, and stale that the   *)
(* stops still pending were called before the current timer was started.  *)
(***************************************************************************)
EXTENDS Integers, Sequences, FiniteSets, TLC

\* ---------------------------------------------------------------- bounds
MaxTimers   == 2   \* timer objects alive at once
MaxInflight == 2   \* strategy invocations running at once
MaxPending  == 2   \* stop_trading calls waiting at once
MaxLimit    == 2   \* largest options.limit tried
MaxTime     == 1   \* advances of the clock read by new Date()
MaxErrors   == 2   \* entries of the errors logs together
MaxRefresh  == 1   \* refresh_indicators calls waiting at once
MaxCancels  == 2   \* cancel_order / cancel_all_orders calls waiting at once

TimerIds == 1..MaxTimers
Limits   == {0, MaxLimit}            \* 0 stands for the default -1 (forever)
Errs     == {"e1", "e2"}             \* errors the exchange client can report
Srcs     == {"timer", "guard"}       \* who started a strategy invocation
Kinds    == {"ticker", "myorders"}   \* the indicators of init_state

\* the payloads of getProductTicker
TickerVals == { [price |-> 3, bid |-> 2, ask |-> 4],
                [price |-> 5, bid |-> 4, ask |-> 6] }

VARIABLES
    busy_executing,   \* this._busy_executing
    is_trading,       \* this._is_trading
    timer,            \* this._timer: 0 is null, else a timer object
    timers,           \* the timer objects: running, limit, done
    immediate,        \* setImmediate callbacks of execute_strategy queued
    inflight,         \* strategy invocations running, by who started them
    cancelling,       \* stop_trading calls waiting for cancelAllOrders
    reactions,        \* stop_trading calls whose .then reaction is queued
    orders,           \* the exchange's open orders (ids)
    cancels,          \* cancel_order / cancel_all_orders calls waiting
    ind,              \* the indicator records: this._ticker, this._myorders
    refreshes,        \* refresh_indicators calls
    now,              \* the clock read by new Date()
    halted,           \* a stop_trading has resolved and no start came since
    stale,            \* stops were pending at the last start, none called since
    ev                \* what the last step did and how its promise settled

vars == << busy_executing, is_trading, timer, timers, immediate, inflight,
           cancelling, reactions, orders, cancels, ind, refreshes, now,
           halted, stale, ev >>

sched == << busy_executing, is_trading, timer, timers, immediate, inflight,
            cancelling, reactions, halted, stale >>
store == << ind, refreshes >>

\* an event: the operation, its argument, the outcome it saw (ok or an error)
\* and how the promise it belongs to stands
Event(op, arg, val, out) == [op |-> op, arg |-> arg, val |-> val, out |-> out]

NoRefresh == [all |-> "free", ticker |-> "-", myorders |-> "-"]

NoTimer == [running |-> FALSE, limit |-> 0, done |-> 0]

\* init_state: { updated: undefined, data: undefined, errors: [] }
\* (updated 0 and data <<>> stand for undefined)
init_state == [k \in Kinds |-> [updated |-> 0, data |-> <<>>, errors |-> <<>>]]

\* the constructor
Init ==
    /\ busy_executing = FALSE
    /\ is_trading = FALSE
    /\ timer = 0
    /\ timers = [t \in TimerIds |-> NoTimer]
    /\ immediate = 0
    /\ inflight = [timer |-> 0, guard |-> 0]
    /\ cancelling = 0
    /\ reactions = 0
    /\ orders = <<1, 2, 3>>
    /\ cancels = {}
    /\ ind = init_state
    /\ refreshes = [g \in 1..MaxRefresh |-> NoRefresh]
    /\ now = 1
    /\ halted = FALSE
    /\ stale = FALSE
    /\ ev = Event("new", "-", "-", "-")

\* ------------------------------------------------------------ event loop

\* (mutant) the combined promise settles with the first fetch (Promise.race)
AnyReady(g) ==
    /\ refreshes[g].all = "pending"
    /\ \E k \in Kinds : refreshes[g][k] \in {"ok", "failed", "rejected"}

\* Promise.all([fetch_ticker(), fetch_myorders()]) can settle: one of the
\* promises is rejected or all of them are resolved
AllReady(g) ==
    /\ refreshes[g].all = "pending"
    /\ \/ \E k \in Kinds : refreshes[g][k] = "rejected"
       \/ \A k \in Kinds : refreshes[g][k] \in {"ok", "failed"}

\* a promise reaction (microtask) is queued: it runs before any further
\* callback of the event loop
MicroPending == reactions > 0 \/ \E g \in 1..MaxRefresh : AllReady(g)

Running == inflight.timer + inflight.guard

\* ------------------------------------------------------------ the timer

\* options.callback = this._execute_trading_strategy.bind(this)
callback == "_execute_trading_strategy"

\* (mutant) the 'started' handler leaves the flag as it was constructed
OnStartedForgets == FALSE

\* timer.on('started', ...): this._is_trading = true
OnStarted == TRUE

\* (mutant) the 'stopped' handler is a copy of the 'started' one
OnStoppedKeeps == TRUE

\* timer.on('stopped', ...): this._is_trading = false
OnStopped == FALSE

\* (mutant) the timer is created and never started
NewTimerNotStarted(limit) == [running |-> FALSE, limit |-> limit, done |-> 0]

\* new continuous(options) and timer.start(): no run is counted yet
NewTimer(limit) == [running |-> TRUE, limit |-> limit, done |-> 0]

\* continuous: the run limit is reached
LimitReached(t) == timers[t].limit > 0 /\ timers[t].done + 1 >= timers[t].limit

\* the lowest timer slot that holds no running timer
FreeSlot == CHOOSE t \in TimerIds :
                /\ ~timers[t].running
                /\ \A u \in TimerIds : ~timers[u].running => t <= u

\* ------------------------------------------------------------ scheduler

\* (mutant) start_trading without the is_trading test
StartAlways == FALSE

\* (mutant) start_trading tests the busy flag in place of is_trading
StartChecksBusy == busy_executing

\* start_trading: if (self.is_trading) return resolve(false)
StartIsNoop == is_trading

\* (mutant) the timer runs its callback once as it starts, before 'started'
StartTradingFiresAtOnce(limit) ==
    /\ halted' = FALSE
    /\ IF StartIsNoop
       THEN /\ ev' = Event("start_trading", "-", "false", "resolved")
            /\ UNCHANGED << stale, is_trading, timer, timers, inflight >>
       ELSE /\ \E t \in TimerIds : ~timers[t].running
            /\ Running < MaxInflight
            /\ timers' = [timers EXCEPT ![FreeSlot] =
                             [running |-> TRUE, limit |-> limit, done |-> 1]]
            /\ inflight' = [inflight EXCEPT !.timer = @ + 1]
            /\ timer' = FreeSlot
            /\ is_trading' = OnStarted
            /\ stale' = (cancelling + reactions > 0)
            /\ ev' = Event("start_trading", IF halted THEN "restart" ELSE "-",
                           "true", "resolved")
    /\ UNCHANGED << busy_executing, immediate, cancelling, reactions,
                    orders, cancels, store, now >>

\* A start_trading that builds the indicator records anew, as the constructor
\* does.
StartTradingResets(limit) ==
    /\ halted' = FALSE
    /\ IF StartIsNoop
       THEN /\ ev' = Event("start_trading", "-", "false", "resolved")
            /\ UNCHANGED << stale, is_trading, timer, timers >>
       ELSE /\ \E t \in TimerIds : ~timers[t].running
            /\ timers' = [timers EXCEPT ![FreeSlot] = NewTimer(limit)]
            /\ timer' = FreeSlot
            /\ is_trading' = OnStarted
            /\ stale' = (cancelling + reactions > 0)
            /\ ev' = Event("start_trading", IF halted THEN "restart" ELSE "-",
                           "true", "resolved")
    /\ ind' = init_state
    /\ UNCHANGED << busy_executing, immediate, inflight, cancelling, reactions,
                    orders, cancels, refreshes, now >>

\* start_trading(options)
StartTrading(limit) ==
    /\ halted' = FALSE
    /\ IF StartIsNoop
       THEN /\ ev' = Event("start_trading", "-", "false", "resolved")
            /\ UNCHANGED << stale, is_trading, timer, timers >>
       ELSE /\ \E t \in TimerIds : ~timers[t].running
            /\ timers' = [timers EXCEPT ![FreeSlot] = NewTimer(limit)]
            /\ timer' = FreeSlot
            /\ is_trading' = OnStarted
            /\ stale' = (cancelling + reactions > 0)
            /\ ev' = Event("start_trading", IF halted THEN "restart" ELSE "-",
                           "true", "resolved")
    /\ UNCHANGED << busy_executing, immediate, inflight, cancelling, reactions,
                    orders, cancels, store, now >>

\* (mutant) stop_trading without the is_trading test
StopAlways == FALSE

\* stop_trading: if (!this.is_trading) return Promise.resolve()
StopIsNoop == ~is_trading

\* (mutant) stop_trading halts the timer at once and cancels afterwards
StopTradingEager(cancel) ==
    /\ IF StopIsNoop
       THEN /\ ev' = Event("stop_trading", IF cancel THEN "cancel" ELSE "plain",
                           "noop", "resolved")
            /\ UNCHANGED << stale, cancelling, reactions, timers, is_trading >>
       ELSE /\ cancelling + reactions < MaxPending
            /\ stale' = FALSE
            /\ ev' = Event("stop_trading", IF cancel THEN "cancel" ELSE "plain",
                           "stopping", "pending")
            /\ timers' = [timers EXCEPT ![timer] = NoTimer]
            /\ is_trading' = FALSE
            /\ IF cancel
               THEN cancelling' = cancelling + 1 /\ UNCHANGED reactions
               ELSE reactions' = reactions + 1 /\ UNCHANGED cancelling
    /\ UNCHANGED << busy_executing, timer, immediate,
                    inflight, orders, cancels, store, now, halted >>

\* stop_trading(options): the synchronous part
StopTrading(cancel) ==
    /\ IF StopIsNoop
       THEN /\ ev' = Event("stop_trading", IF cancel THEN "cancel" ELSE "plain",
                           "noop", "resolved")
            /\ UNCHANGED << stale, cancelling, reactions >>
       ELSE /\ cancelling + reactions < MaxPending
            /\ stale' = FALSE
            /\ ev' = Event("stop_trading", IF cancel THEN "cancel" ELSE "plain",
                           "stopping", "pending")
            /\ IF cancel
               THEN cancelling' = cancelling + 1 /\ UNCHANGED reactions
               ELSE reactions' = reactions + 1 /\ UNCHANGED cancelling
    /\ UNCHANGED << busy_executing, is_trading, timer, timers, immediate,
                    inflight, orders, cancels, store, now, halted >>

\* cancel.then(() => {...}): the reaction runs for these outcomes of cancel
StopReactsTo(err) == err = "ok"

\* (mutant) the cancel swallows the client's error: resolve(err)
CancelPromiseSwallows(err) == "resolved"

\* the callback of cancelOrder / cancelAllOrders: how it settles the promise
\* of cancel_order / cancel_all_orders (reject(err), resolve(result))
CancelPromise(err) == IF err = "ok" THEN "resolved" ELSE "rejected"

\* cancel_all_orders: the callback of client.cancelAllOrders, for a stop
\* (without a rejection handler the promise of stop_trading settles as the
\* cancel does when the cancel fails)
CancelAllReply(err) ==
    /\ cancelling > 0
    /\ ~MicroPending
    /\ cancelling' = cancelling - 1
    /\ orders' = IF err = "ok" THEN <<>> ELSE orders
    /\ IF StopReactsTo(err)
       THEN /\ reactions' = reactions + 1
            /\ ev' = Event("cancel_all_orders", "stop", err, CancelPromise(err))
       ELSE /\ UNCHANGED reactions
            /\ ev' = Event("stop_settled", "cancel", err, CancelPromise(err))
    /\ UNCHANGED << busy_executing, is_trading, timer, timers, immediate,
                    inflight, cancels, store, now, halted, stale >>

\* (mutant) the reaction clears the flag and leaves the timer firing
StopFlagOnly ==
    /\ timers' = timers
    /\ is_trading' = FALSE

\* (mutant) the reaction of a stop that was called before the current timer
\* was started leaves that timer alone
StopTimerSparesNew ==
    IF stale
    THEN UNCHANGED << timers, is_trading >>
    ELSE /\ timers' = [timers EXCEPT ![timer] = NoTimer]
         /\ is_trading' = OnStopped

\* this._timer.stop(): the timer halts and emits 'stopped'
StopTimer ==
    /\ timers' = [timers EXCEPT ![timer] = NoTimer]
    /\ is_trading' = OnStopped

\* (mutant) the reaction also resets the busy flag
StopReactionResetsBusy ==
    /\ reactions > 0
    /\ reactions' = reactions - 1
    /\ busy_executing' = FALSE
    /\ IF timer = 0
       THEN /\ ev' = Event("stop_settled", "-", "TypeError", "rejected")
            /\ UNCHANGED << timers, is_trading, halted >>
       ELSE /\ StopTimer
            /\ halted' = TRUE
            /\ ev' = Event("stop_settled", IF stale THEN "stale" ELSE "-",
                           "ok", "resolved")
    /\ UNCHANGED << stale, timer, immediate, inflight, cancelling,
                    orders, cancels, store, now >>

\* stop_trading: the reaction of cancel.then
StopReaction ==
    /\ reactions > 0
    /\ reactions' = reactions - 1
    /\ IF timer = 0
       THEN /\ ev' = Event("stop_settled", "-", "TypeError", "rejected")
            /\ UNCHANGED << timers, is_trading, halted >>
       ELSE /\ StopTimer
            /\ halted' = TRUE
            /\ ev' = Event("stop_settled", IF stale THEN "stale" ELSE "-",
                           "ok", "resolved")
    /\ UNCHANGED << stale, busy_executing, timer, immediate, inflight, cancelling,
                    orders, cancels, store, now >>

\* execute_strategy(), reached from `from` (a call or a tick)
ExecuteStrategy(from) ==
    /\ IF busy_executing
       THEN /\ ev' = Event(from, "-", "skipped", "-")
            /\ UNCHANGED << busy_executing, immediate >>
       ELSE /\ busy_executing' = TRUE
            /\ immediate' = immediate + 1
            /\ ev' = Event(from, "-", "scheduled", "-")

\* execute_strategy, called by the user of the bot
CallExecuteStrategy ==
    /\ ExecuteStrategy("execute_strategy")
    /\ UNCHANGED << is_trading, timer, timers, inflight, cancelling, reactions,
                    orders, cancels, store, now, halted, stale >>

\* a firing of timer t: continuous calls options.callback and counts the run
\* (the runs of a timer without limit are counted up to MaxLimit)
Tick(t) ==
    /\ timers[t].running
    /\ ~MicroPending
    /\ IF callback = "execute_strategy"
       THEN /\ ExecuteStrategy("tick")
            /\ UNCHANGED inflight
       ELSE /\ Running < MaxInflight
            /\ inflight' = [inflight EXCEPT !.timer = @ + 1]
            /\ ev' = Event("tick", "-", "invoked", "-")
            /\ UNCHANGED << busy_executing, immediate >>
    /\ IF LimitReached(t)
       THEN /\ timers' = [timers EXCEPT ![t] = NoTimer]
            /\ is_trading' = OnStopped
       ELSE /\ timers' = [timers EXCEPT ![t].done =
                             IF timers[t].limit > 0 \/ @ < MaxLimit THEN @ + 1 ELSE @]
            /\ UNCHANGED is_trading
    /\ UNCHANGED << timer, cancelling, reactions, orders, cancels, store, now, halted, stale >>

\* the strategy's promise settles with this outcome: what .then(() => {...})
\* of execute_strategy does to the busy flag
BusyAfter(ok) == IF ok THEN FALSE ELSE busy_executing

\* setImmediate(() => { self._execute_trading_strategy().then(...) })
RunImmediate(throws) ==
    /\ immediate > 0
    /\ ~MicroPending
    /\ immediate' = immediate - 1
    /\ IF throws
       THEN /\ ev' = Event("immediate", "guard", "threw", "-")
            /\ UNCHANGED inflight
       ELSE /\ Running < MaxInflight
            /\ inflight' = [inflight EXCEPT !.guard = @ + 1]
            /\ ev' = Event("immediate", "guard", "invoked", "-")
    /\ UNCHANGED << busy_executing, is_trading, timer, timers, cancelling,
                    reactions, orders, cancels, store, now, halted, stale >>

\* the promise of a running _execute_trading_strategy settles
StrategySettles(src, ok) ==
    /\ inflight[src] > 0
    /\ inflight' = [inflight EXCEPT ![src] = @ - 1]
    /\ busy_executing' = IF src = "guard" THEN BusyAfter(ok) ELSE busy_executing
    /\ ev' = Event("strategy_settled", src, IF ok THEN "ok" ELSE "failed",
                   IF ok THEN "resolved" ELSE "rejected")
    /\ UNCHANGED << is_trading, timer, timers, immediate, cancelling, reactions,
                    orders, cancels, store, now, halted, stale >>

SchedNext ==
    \/ \E limit \in Limits : StartTrading(limit)
    \/ \E cancel \in BOOLEAN : StopTrading(cancel)
    \/ \E err \in Errs \cup {"ok"} : CancelAllReply(err)
    \/ StopReaction
    \/ CallExecuteStrategy
    \/ \E t \in TimerIds : Tick(t)
    \/ \E throws \in BOOLEAN : RunImmediate(throws)
    \/ \E src \in Srcs, ok \in BOOLEAN : StrategySettles(src, ok)

\* ------------------------------------------------------ cancel requests
\* the orders of the exchange's order list, as the client's answers name them
OrderIds == {1, 2, 3}

\* a cancel request: <<>> is cancel_all_orders(), <<id>> is cancel_order(id)
Requests == {<<>>} \cup {<<id>> : id \in OrderIds}

\* (mutant) cancel_order calls the client without the order id
CancelOrderArgNone(req) == <<>>

\* what the call hands to the client: cancelOrder(order_id, ...) for
\* cancel_order, nothing but the callback for cancel_all_orders
CancelOrderArg(req) == req

\* the exchange's open orders after it has carried out a cancel: all orders
\* go, or the first order with this id is spliced out of the list
ExchangeCancel(os, arg) ==
    IF Len(arg) = 0
    THEN <<>>
    ELSE LET hits == {i \in 1..Len(os) : os[i] = arg[1]}
         IN  IF hits = {}
             THEN os
             ELSE LET i == CHOOSE h \in hits : \A g \in hits : h <= g
                  IN  SubSeq(os, 1, i - 1) \o SubSeq(os, i + 1, Len(os))

\* cancel_order(order_id) / cancel_all_orders(): the request goes out
CallCancel(req) ==
    /\ Cardinality(cancels) < MaxCancels
    /\ req \notin cancels
    /\ cancels' = cancels \cup {req}
    /\ ev' = Event(IF Len(req) = 0 THEN "cancel_all_orders" ELSE "cancel_order",
                   "call", "-", "pending")
    /\ UNCHANGED << sched, orders, store, now >>

\* the callback of client.cancelOrder / client.cancelAllOrders
CancelReply(req, err) ==
    /\ req \in cancels
    /\ ~MicroPending
    /\ cancels' = cancels \ {req}
    /\ orders' = IF err = "ok" THEN ExchangeCancel(orders, CancelOrderArg(req))
                 ELSE orders
    /\ ev' = Event("cancel_settled", IF Len(req) = 0 THEN "all" ELSE "order",
                   err, CancelPromise(err))
    /\ UNCHANGED << sched, store, now >>

CancelNext ==
    \/ \E limit \in Limits : StartTrading(limit)
    \/ \E cancel \in BOOLEAN : StopTrading(cancel)
    \/ \E err \in Errs \cup {"ok"} : CancelAllReply(err)
    \/ StopReaction
    \/ \E req \in Requests : CallCancel(req)
    \/ \E req \in Requests, err \in Errs \cup {"ok"} : CancelReply(req, err)

\* the cancel requests of the bot, with the start and stop of trading
CancelSpec == Init /\ [][CancelNext]_vars

\* ------------------------------------------------------- indicator store

Refreshes == 1..MaxRefresh

\* entries in the errors logs of all indicators together
Logged == Len(ind["ticker"].errors) + Len(ind["myorders"].errors)

\* (mutant) a failed fetch also drops the value it could not replace
FetchRecordDropsData(rec, err, val) ==
    IF err # "ok"
    THEN [rec EXCEPT !.errors = Append(@, [timestamp |-> now, error |-> err]),
                     !.updated = 0, !.data = <<>>]
    ELSE [rec EXCEPT !.updated = now, !.data = <<val>>]

\* (mutant) a successful fetch starts the errors log afresh
FetchRecordClearsLog(rec, err, val) ==
    IF err # "ok"
    THEN [rec EXCEPT !.errors = Append(@, [timestamp |-> now, error |-> err])]
    ELSE [rec EXCEPT !.updated = now, !.data = <<val>>, !.errors = <<>>]

\* (mutant) a successful fetch stores the value and leaves its time
FetchRecordDataOnly(rec, err, val) ==
    IF err # "ok"
    THEN [rec EXCEPT !.errors = Append(@, [timestamp |-> now, error |-> err])]
    ELSE [rec EXCEPT !.data = <<val>>]

\* the callback of getProductTicker / getOrders: what it does to the record
FetchRecord(rec, err, val) ==
    IF err # "ok"
    THEN [rec EXCEPT !.errors = Append(@, [timestamp |-> now, error |-> err])]
    ELSE [rec EXCEPT !.updated = now, !.data = <<val>>]

\* (mutant) the fetch passes the client's error on: reject(err)
FetchPromiseRejects(err) == IF err = "ok" THEN "resolved" ELSE "rejected"

\* the callback of getProductTicker / getOrders: how it settles the promise
\* of fetch_ticker / fetch_myorders (resolve(null), resolve(ticker))
FetchPromise(err) == "resolved"

\* what the exchange client delivers on success
Payloads(k) == IF k = "ticker" THEN TickerVals ELSE {orders}

\* the lowest slot that holds no pending refresh_indicators call
FreeRefresh == CHOOSE g \in Refreshes :
                   /\ refreshes[g].all # "pending"
                   /\ \A h \in Refreshes : refreshes[h].all # "pending" => g <= h

\* (mutant) refresh_indicators asks for the orders only after the ticker
CallRefreshOneByOne ==
    /\ \E g \in 1..MaxRefresh : refreshes[g].all # "pending"
    /\ \E g \in 1..MaxRefresh :
          /\ refreshes[g].all # "pending"
          /\ refreshes' = [refreshes EXCEPT ![g] =
                              [all |-> "pending", ticker |-> "pending", myorders |-> "-"]]
    /\ ev' = Event("refresh_indicators", "-", "-", "pending")
    /\ UNCHANGED << sched, orders, cancels, ind, now >>

\* refresh_indicators(): fetch_ticker() and fetch_myorders() are called, each
\* issues its request to the client, and Promise.all of the two is returned
CallRefresh ==
    /\ \E g \in Refreshes : refreshes[g].all # "pending"
    /\ refreshes' = [refreshes EXCEPT ![FreeRefresh] =
                        [all |-> "pending", ticker |-> "pending", myorders |-> "pending"]]
    /\ ev' = Event("refresh_indicators", "-", "-", "pending")
    /\ UNCHANGED << sched, orders, cancels, ind, now >>

\* the exchange client calls back the fetch of indicator k that the
\* refresh_indicators call g issued
FetchReply(k, g, err) ==
    /\ ~MicroPending
    /\ refreshes[g][k] = "pending"
    /\ err # "ok" => Logged < MaxErrors
    /\ \E val \in Payloads(k) : ind' = [ind EXCEPT ![k] = FetchRecord(@, err, val)]
    /\ refreshes' = [refreshes EXCEPT ![g][k] =
                        IF FetchPromise(err) = "rejected" THEN "rejected"
                        ELSE IF err = "ok" THEN "ok" ELSE "failed"]
    /\ ev' = Event("fetch_settled", k, err, FetchPromise(err))
    /\ UNCHANGED << sched, orders, cancels, now >>

\* the promise of Promise.all settles
AllSettles(g) ==
    /\ AllReady(g)
    /\ refreshes' = [refreshes EXCEPT ![g].all =
                        IF \E k \in Kinds : refreshes[g][k] = "rejected"
                        THEN "rejected" ELSE "resolved"]
    /\ ev' = Event("refresh_settled", "-", "-", refreshes'[g].all)
    /\ UNCHANGED << sched, orders, cancels, ind, now >>

\* time passes
AdvanceClock ==
    /\ now < 1 + MaxTime
    /\ now' = now + 1
    /\ ev' = Event("clock", "-", "-", "-")
    /\ UNCHANGED << sched, orders, cancels, store >>

StoreNext ==
    \/ CallRefresh
    \/ \E k \in Kinds, g \in Refreshes, err \in Errs \cup {"ok"} : FetchReply(k, g, err)
    \/ \E g \in Refreshes : AllSettles(g)
    \/ AdvanceClock

StoreSpec == Init /\ [][StoreNext]_vars

OrdersNext ==
    \/ \E req \in Requests : CallCancel(req)
    \/ \E req \in Requests, err \in Errs \cup {"ok"} : CancelReply(req, err)
    \/ CallRefresh
    \/ \E k \in Kinds, g \in Refreshes : FetchReply(k, g, "ok")
    \/ \E g \in Refreshes : AllSettles(g)

\* the cancel requests and the refreshes that show their effect (here the
\* client answers every fetch; its failures are the subject of StoreSpec)
OrdersSpec == Init /\ [][OrdersNext]_vars

\* The scheduler, the cancel requests and the store side by side.  Their
\* product is too large to explore, so one of the three moves at a time
\* while the other two rest in one of a few states: the scheduler in the
\* state of a new bot or trading with the busy flag set and invocations
\* running, the cancel requests with none waiting and the exchange's orders
\* untouched, the store with no fetch waiting and either no answer yet or
\* both indicators loaded without a failure.
SchedAtRest ==
    /\ cancelling = 0 /\ reactions = 0 /\ immediate = 0
    /\ \/ ~is_trading /\ timer = 0 /\ ~busy_executing /\ Running = 0
       \/ /\ is_trading /\ ~halted /\ busy_executing
          /\ timers[timer].limit = 0 /\ timers[timer].done = 1
          /\ inflight = [timer |-> 1, guard |-> 1]

CancelAtRest == cancels = {} /\ orders = <<1, 2, 3>>

StoreAtRest ==
    /\ \A g \in Refreshes : refreshes[g].all # "pending"
    /\ \/ ind = init_state
       \/ \A k \in Kinds : ind[k].data # <<>> /\ ind[k].errors = <<>>

SchedMoves == CancelAtRest /\ StoreAtRest

CancelMoves == SchedAtRest /\ StoreAtRest

StoreMoves == SchedAtRest /\ CancelAtRest

FrameNext ==
    \/ \E limit \in Limits : SchedMoves /\ StartTrading(limit)
    \/ \E cancel \in BOOLEAN : SchedMoves /\ StopTrading(cancel)
    \/ \E err \in Errs \cup {"ok"} : SchedMoves /\ CancelAllReply(err)
    \/ SchedMoves /\ StopReaction
    \/ SchedMoves /\ CallExecuteStrategy
    \/ \E t \in TimerIds : SchedMoves /\ Tick(t)
    \/ \E throws \in BOOLEAN : SchedMoves /\ RunImmediate(throws)
    \/ \E src \in Srcs, ok \in BOOLEAN : SchedMoves /\ StrategySettles(src, ok)
    \/ \E req \in Requests : CancelMoves /\ CallCancel(req)
    \/ \E req \in Requests, err \in Errs \cup {"ok"} : CancelMoves /\ CancelReply(req, err)
    \/ StoreMoves /\ CallRefresh
    \/ \E k \in Kinds, g \in Refreshes, err \in Errs \cup {"ok"} :
          StoreMoves /\ FetchReply(k, g, err)
    \/ \E g \in Refreshes : StoreMoves /\ AllSettles(g)

FrameSpec == Init /\ [][FrameNext]_vars

Next == SchedNext \/ StoreNext

FullSpec == Init /\ [][Next]_vars

Spec == Init /\ [][SchedNext]_vars

\* The scheduler under the event loop's guarantees: a running timer fires
\* again and again (strong fairness, since a firing is held back while
\* reactions are pending and while MaxInflight invocations are in flight),
\* the strategy's promises settle and pending promise reactions are run.
LiveSpec ==
    /\ Spec
    /\ SF_vars(\E t \in TimerIds : Tick(t))
    /\ \A src \in Srcs : WF_vars(\E ok \in BOOLEAN : StrategySettles(src, ok))
    /\ WF_vars(StopReaction)

\* -------------------------------------------------------- read accessors
\* what a read of a property of the bot yields: one of the bot's records,
\* a number (in halves of the price unit, so that 0.5 * sum is exact),
\* null, or undefined
Undefined == [kind |-> "undefined"]
Null      == [kind |-> "null"]
Record(r) == [kind |-> "record", rec |-> r]
Number(h) == [kind |-> "number", halves |-> h]

\* the live order book of OrderbookSync: its best bid and its best ask,
\* <<>> where the side is empty (_bids.max(), _asks.min() yield null)
Books == {[bid |-> b, ask |-> a] : b \in {<<>>, <<2>>, <<3>>}, a \in {<<>>, <<4>>}}

\* get ticker()
ticker == Record(ind["ticker"])

\* get my_orders()
my_orders == Record(ind["myorders"])

\* bot.price: the class defines no property of this name
price == Undefined

\* get midmarket_price(), with the live book in this state
midmarket_price(book) ==
    IF Len(book.bid) > 0 /\ Len(book.ask) > 0
    THEN Number(book.bid[1] + book.ask[1])
    ELSE Null

\* ------------------------------------------------------------- properties

IsPrefix(a, b) == Len(a) <= Len(b) /\ SubSeq(b, 1, Len(a)) = a

RunningTimers == {t \in TimerIds : timers[t].running}

\* C1: at most one invocation of _execute_trading_strategy is in flight at
\* any instant, whatever the ticks and the latency of the strategy.
C1_SingleFlight == Running <= 1

\* C2: when an invocation started by execute_strategy fails, the busy flag
\* is cleared all the same.
C2_FailureClearsBusy ==
    [][(ev'.op = "strategy_settled" /\ ev'.arg = "guard" /\ ev'.val = "failed")
          => busy_executing' = FALSE]_vars

\* C3: when the cancel-all-orders request of stop_trading({cancel: true})
\* fails, the timer is halted and is_trading is false all the same.
C3_StopDespiteCancelFailure ==
    [][(ev'.op = "stop_settled" /\ ev'.arg = "cancel" /\ ev'.val \in Errs)
          => (~is_trading' /\ \A t \in TimerIds : ~timers'[t].running)]_vars

\* C4: once a stop_trading call on a trading bot has resolved, no tick is
\* delivered until a later start_trading.
C4_NoTickAfterStop == [][halted => ev'.op # "tick"]_vars

C4_Witness ==
    /\ halted
    /\ ev = Event("stop_settled", "-", "ok", "resolved")
    /\ Running > 0

\* C5: start_trading on a bot that is trading creates no second timer, leaves
\* the existing timer running and is_trading true, and resolves.
C5_StartIdempotent ==
    [][(is_trading /\ ev'.op = "start_trading")
          => /\ timers' = timers
             /\ timer' = timer
             /\ RunningTimers = {timer}
             /\ is_trading'
             /\ ev'.out = "resolved"]_vars

C5_Witness ==
    /\ ev = Event("start_trading", "-", "false", "resolved")
    /\ is_trading
    /\ RunningTimers = {timer}

\* C6: a failed refresh of an indicator leaves its data and updated as they
\* were and appends exactly one (timestamp, error) entry to its errors log,
\* so a sequence of failures leaves data and updated as before the first one
\* and logs the failures in the order they resolved.
C6_FailureOnlyLogs ==
    [][\A k \in Kinds :
          (ev'.op = "fetch_settled" /\ ev'.arg = k /\ ev'.val # "ok")
             => /\ ind'[k].data = ind[k].data
                /\ ind'[k].updated = ind[k].updated
                /\ ind'[k].errors =
                      Append(ind[k].errors, [timestamp |-> now, error |-> ev'.val])]_vars

C6_Witness ==
    \E k \in Kinds :
       /\ ev.op = "fetch_settled" /\ ev.arg = k /\ ev.val # "ok"
       /\ Len(ind[k].errors) = 2
       /\ ind[k].errors[1].error # ind[k].errors[2].error
       /\ ind[k].data # <<>>
       /\ ind[k].updated <= ind[k].errors[1].timestamp

\* C7: the errors log is append-only: in every step the log before is a
\* prefix of the log after, and a successful refresh sets data and updated to
\* the new value and leaves the log as it was.
C7_ErrorsAppendOnly ==
    [][\A k \in Kinds :
          /\ IsPrefix(ind[k].errors, ind'[k].errors)
          /\ (ev'.op = "fetch_settled" /\ ev'.arg = k /\ ev'.val = "ok")
                => /\ ind'[k].updated = now
                   /\ Len(ind'[k].data) = 1
                   /\ ind'[k].data[1] \in Payloads(k)
                   /\ ind'[k].errors = ind[k].errors]_vars

C7_Witness ==
    \E k \in Kinds :
       /\ ev = Event("fetch_settled", k, "ok", "resolved")
       /\ Len(ind[k].errors) = 2
       /\ ind[k].updated = now
       /\ ind[k].updated > ind[k].errors[2].timestamp

\* C8: the promises of fetch_ticker, fetch_myorders and refresh_indicators
\* resolve for every outcome of the fetches and never reject; a failed fetch
\* shows as one new entry of that indicator's errors log.
C8_RefreshNeverRejects ==
    [][/\ ev'.op = "fetch_settled"
            => /\ ev'.out = "resolved"
               /\ ev'.val \in Errs
                     => Len(ind'[ev'.arg].errors) = Len(ind[ev'.arg].errors) + 1
       /\ ev'.op = "refresh_settled" => ev'.out = "resolved"
       /\ \A g \in Refreshes :
             /\ refreshes'[g].all # "rejected"
             /\ \A k \in Kinds : refreshes'[g][k] # "rejected"]_vars

C8_Witness ==
    /\ ev = Event("refresh_settled", "-", "-", "resolved")
    /\ \E g \in Refreshes :
          /\ refreshes[g].all = "resolved"
          /\ \A k \in Kinds : refreshes[g][k] = "failed"

C10_StopNoop ==
    [][(~is_trading /\ ev'.op = "stop_trading")
          => /\ ev'.out = "resolved"
             /\ UNCHANGED << is_trading, busy_executing, timer, timers,
                             cancelling, reactions, orders >>]_vars

C10_Witness ==
    /\ ev = Event("stop_trading", "cancel", "noop", "resolved")
    /\ ~is_trading
    /\ cancelling = 0

\* C11: is_trading is false on a new bot, true once start_trading on a
\* stopped bot has resolved and false once a following stop_trading has
\* resolved; it changes in no other way than by a start and by the halt of
\* the timer, and is true exactly while the timer of the last start runs.
C11_TradingFlag ==
    /\ ~is_trading
    /\ [][ /\ ((ev'.op = "start_trading" /\ ~is_trading)
                  => (is_trading' /\ ev'.out = "resolved"))
            /\ ((ev'.op = "stop_settled" /\ ev'.out = "resolved") => ~is_trading')
            /\ ((~is_trading /\ is_trading') => ev'.op = "start_trading")
            /\ ((is_trading /\ ~is_trading') => ev'.op \in {"stop_settled", "tick"})
            /\ (is_trading' <=> (timer' # 0 /\ timers'[timer'].running)) ]_vars

C11_Witness ==
    /\ ev = Event("stop_settled", "-", "ok", "resolved")
    /\ ~is_trading
    /\ timer # 0
    /\ ~timers[timer].running

\* C12: no tick fires before start_trading has resolved with is_trading
\* true: when the start resolves, the new timer has counted no run and the
\* start has begun no invocation, and every tick finds is_trading true.
C12_NoTickBeforeStarted ==
    [][/\ ((ev'.op = "start_trading" /\ ev'.val = "true")
             => (/\ is_trading'
                 /\ timers'[timer'].done = 0
                 /\ inflight' = inflight
                 /\ immediate' = immediate))
       /\ (ev'.op = "tick" => is_trading)]_vars

C12_Witness ==
    /\ ev = Event("start_trading", "-", "true", "resolved")
    /\ is_trading
    /\ timers[timer].done = 0
    /\ Running = 0

\* C13: while the bot trades and the strategy's invocations complete, ticks
\* keep invoking the strategy: a started timer invokes it more than once
\* unless trading ends first, and at every time a later tick invokes it
\* again unless the bot stops trading.
C13_TicksKeepInvoking ==
    /\ []<>(~is_trading \/ ev.op = "tick")
    /\ (is_trading /\ timers[timer].done = 0)
          ~> (~is_trading \/ timers[timer].done >= 2)

C13_Witness ==
    /\ is_trading
    /\ timers[timer].done >= 2
    /\ ev = Event("strategy_settled", "timer", "ok", "resolved")
    /\ Running = 0

\* C14: when the exchange client fails a cancel request, the promise of
\* cancel_order, of cancel_all_orders and of stop_trading({cancel: true})
\* is rejected with the client's error, and the request has cancelled nothing.
C14_CancelFailureRejects ==
    [][ /\ ((ev'.op = "cancel_settled" /\ cancels' # cancels)
               => /\ (ev'.val \in Errs <=> ev'.out = "rejected")
                  /\ (ev'.val = "ok"   <=> ev'.out = "resolved")
                  /\ (ev'.val \in Errs => orders' = orders))
        /\ ((cancelling' < cancelling /\ ev'.val # "ok")
               => /\ ev'.op = "stop_settled"
                  /\ ev'.val \in Errs
                  /\ ev'.out = "rejected"
                  /\ orders' = orders) ]_vars

C14_Witness ==
    /\ ev = Event("cancel_settled", "order", "e1", "rejected")
    /\ orders = <<1, 2, 3>>
    /\ is_trading
    /\ cancelling > 0

\* C15: a cancel_order(id) that resolves leaves the exchange with its earlier
\* open orders without id, in their order, and a cancel_all_orders with
\* none; nothing else changes them; and a refresh of the open orders that
\* the client answers makes my_orders.data exactly the exchange's orders.
C15_StoreShowsCancels ==
    [][ /\ \A req \in cancels \ cancels' :
              LET Others(o) == o # req[1]
              IN  orders' = IF ev'.val # "ok" THEN orders
                            ELSE IF Len(req) = 0 THEN <<>>
                            ELSE SelectSeq(orders, Others)
        /\ (orders' # orders => cancels' # cancels)
        /\ ((ev'.op = "fetch_settled" /\ ev'.arg = "myorders" /\ ev'.val = "ok")
               => ind'["myorders"].data = <<orders>>)
        /\ (ind'["myorders"].data # ind["myorders"].data
               => (ev'.op = "fetch_settled" /\ ev'.arg = "myorders")) ]_vars

C15_Witness ==
    /\ ev = Event("refresh_settled", "-", "-", "resolved")
    /\ cancels = {}
    /\ orders = <<1, 3>>
    /\ ind["myorders"].data = << <<1, 3>> >>

\* the "no data" marker: a record whose updated and data are absent and
\* whose errors log is empty
IsNoData(v) ==
    /\ v.kind = "record"
    /\ v.rec.updated = 0
    /\ v.rec.data = <<>>
    /\ v.rec.errors = <<>>

\* C16: as long as no fetch has been answered, a read of ticker, my_orders,
\* price and midmarket_price yields the "no data" marker, whatever the live
\* order book holds.
C16_NoDataBeforeRefresh ==
    ind = init_state
        => /\ IsNoData(ticker)
           /\ IsNoData(my_orders)
           /\ IsNoData(price)
           /\ \A book \in Books : IsNoData(midmarket_price(book))

\* C17: midmarket_price is half the sum of the best bid and the best ask,
\* those of the live order book when it has both and else those of the
\* current ticker, and the "no data" marker when neither has them.
C17_MidmarketPrice ==
    \A book \in Books :
        IF Len(book.bid) > 0 /\ Len(book.ask) > 0
        THEN /\ midmarket_price(book).kind = "number"
             /\ midmarket_price(book).halves = book.bid[1] + book.ask[1]
        ELSE IF Len(ind["ticker"].data) > 0
        THEN /\ midmarket_price(book).kind = "number"
             /\ midmarket_price(book).halves =
                    ind["ticker"].data[1].bid + ind["ticker"].data[1].ask
        ELSE IsNoData(midmarket_price(book))

\* C18: a timer started with a run limit halts itself with the tick that
\* completes the limit: that step sets is_trading to false and leaves no
\* timer running, without any stop_trading call being involved; a running
\* timer has always fired fewer times than its limit, and no tick fires
\* while is_trading is false.
C18_RunLimitStops ==
    /\ [](\A t \in TimerIds :
             (timers[t].running /\ timers[t].limit > 0)
                 => timers[t].done < timers[t].limit)
    /\ [][ /\ ((/\ ev'.op = "tick"
                 /\ is_trading
                 /\ timers[timer].limit > 0
                 /\ timers[timer].done + 1 = timers[timer].limit)
                => (/\ ~is_trading'
                    /\ RunningTimers' = {}
                    /\ cancelling' = cancelling
                    /\ reactions' = reactions))
            /\ (~is_trading => ev'.op # "tick") ]_vars

C18_Witness ==
    /\ ev = Event("tick", "-", "invoked", "-")
    /\ ~is_trading
    /\ ~halted
    /\ cancelling = 0 /\ reactions = 0
    /\ RunningTimers = {}

\* C19: however start_trading calls interleave with each other and with the
\* other operations, at most one timer is running, it is the one this._timer
\* holds (the one stop_trading halts), and is_trading is true exactly when
\* there is one; a stop_trading that resolves leaves no timer running.
C19_StartsSerialized ==
    /\ [](/\ Cardinality(RunningTimers) <= 1
          /\ RunningTimers \subseteq {timer}
          /\ (is_trading <=> RunningTimers # {}))
    /\ [][ (ev'.op = "stop_settled" /\ ev'.out = "resolved")
              => RunningTimers' = {} ]_vars

C19_Witness ==
    /\ ev = Event("start_trading", "-", "false", "resolved")
    /\ Cardinality(RunningTimers) = 1
    /\ cancelling > 0
    /\ Running > 0

\* C20: stop_trading({cancel: true}) on a trading bot issues the cancel-all
\* request and leaves the timer running and is_trading true; the answer to
\* the cancel does not halt the timer either, only the reaction that runs
\* after the cancel has resolved does. Without cancel the call issues no
\* cancel request and queues that reaction at once. A timer halts in no
\* other step than such a reaction or the tick that completes its run limit.
C20_CancelBeforeHalt ==
    [][ /\ ((ev'.op = "stop_trading" /\ ev'.val = "stopping")
               => /\ timers' = timers
                  /\ is_trading' = is_trading
                  /\ orders' = orders
                  /\ IF ev'.arg = "cancel"
                     THEN cancelling' = cancelling + 1 /\ reactions' = reactions
                     ELSE cancelling' = cancelling /\ reactions' = reactions + 1)
        /\ (cancelling' < cancelling
               => /\ timers' = timers
                  /\ is_trading' = is_trading
                  /\ reactions' = reactions + (IF ev'.val = "ok" THEN 1 ELSE 0))
        /\ (RunningTimers' # RunningTimers
               => ev'.op \in {"start_trading", "stop_settled", "tick"})
        /\ ((ev'.op = "stop_settled" /\ ev'.out = "resolved")
               => (reactions' = reactions - 1 /\ cancelling' = cancelling)) ]_vars

C20_Witness ==
    /\ ev = Event("cancel_all_orders", "stop", "ok", "resolved")
    /\ orders = <<>>
    /\ is_trading
    /\ RunningTimers = {timer}
    /\ reactions > 0

\* C21: a tick that finds the busy flag true is skipped (it reports the
\* skipped round, starts no invocation and queues none); a tick that finds
\* it false sets it and starts or queues exactly one invocation.
C21_BusyTickSkipped ==
    [][ ev'.op = "tick"
          => IF busy_executing
             THEN /\ ev'.val = "skipped"
                  /\ busy_executing'
                  /\ inflight' = inflight
                  /\ immediate' = immediate
             ELSE /\ busy_executing'
                  /\ (inflight'.timer + inflight'.guard + immediate')
                       = (inflight.timer + inflight.guard + immediate) + 1 ]_vars

\* C22 as stated: this._timer holds a timer exactly when is_trading is true,
\* and with is_trading false no timer runs.
C22_HandleIffTrading ==
    /\ (is_trading <=> timer # 0)
    /\ (~is_trading => RunningTimers = {})

\* C22 amended: a running timer is present exactly when is_trading is true,
\* and it is the one this._timer holds; with is_trading false this._timer is
\* null or holds a halted timer, no timer runs and no tick can fire.
C22_RunningTimerIffTrading ==
    /\ (is_trading => (timer # 0 /\ RunningTimers = {timer}))
    /\ (~is_trading => /\ RunningTimers = {}
                       /\ \A t \in TimerIds : ~ENABLED Tick(t))
    /\ (timer = 0 => ~is_trading)

C22_Witness ==
    /\ ~is_trading
    /\ halted
    /\ timer # 0
    /\ ~timers[timer].running
    /\ ~ENABLED (\E t \in TimerIds : Tick(t))
    /\ Running > 0

\* C23: the busy flag is true exactly while a strategy invocation is running
\* or queued to run.
C23_BusyIffInFlight ==
    busy_executing <=> (inflight.timer + inflight.guard + immediate > 0)

\* C24: no step of stop_trading (the call, the answer to its cancel request,
\* the reaction that halts the timer) changes the busy flag, the running
\* invocations or the queued ones; the busy flag goes from true to false
\* only in the step in which an invocation started through it completes.
C24_StopLeavesInvocation ==
    [][ /\ ((\/ ev'.op \in {"stop_trading", "stop_settled"}
             \/ cancelling' # cancelling
             \/ reactions' # reactions)
               => /\ busy_executing' = busy_executing
                  /\ inflight' = inflight
                  /\ immediate' = immediate)
        /\ ((busy_executing /\ ~busy_executing')
               => /\ ev'.op = "strategy_settled"
                  /\ ev'.arg = "guard"
                  /\ inflight'.guard = inflight.guard - 1) ]_vars

C24_Witness ==
    /\ ev = Event("stop_settled", "-", "ok", "resolved")
    /\ ~is_trading
    /\ busy_executing
    /\ inflight.guard > 0

\* C25: refresh_indicators issues the fetch of every indicator in the call
\* itself, before any answer; the answer to the fetch of one indicator
\* updates that indicator's record in the very step it arrives (the value
\* and its time, or one more entry of the errors log) and leaves the other
\* indicator's record and fetch as they are; and a pending fetch can be
\* answered whatever the state of the other fetch, pending, done or failed.
C25_FetchesIndependent ==
    /\ [](\A g \in Refreshes, k \in Kinds :
             (refreshes[g][k] = "pending" /\ ~MicroPending)
                 => ENABLED FetchReply(k, g, "ok"))
    /\ [][ /\ (ev'.op = "refresh_indicators"
                => \E g \in Refreshes :
                      /\ refreshes[g].all # "pending"
                      /\ \A k \in Kinds : refreshes'[g][k] = "pending"
                      /\ ind' = ind)
            /\ \A k \in Kinds :
                  (ev'.op = "fetch_settled" /\ ev'.arg = k)
                     => /\ \A j \in Kinds \ {k} :
                              /\ ind'[j] = ind[j]
                              /\ \A g \in Refreshes : refreshes'[g][j] = refreshes[g][j]
                        /\ IF ev'.val = "ok"
                           THEN ind'[k].updated = now /\ ind'[k].data # <<>>
                           ELSE Len(ind'[k].errors) = Len(ind[k].errors) + 1 ]_vars

C25_Witness ==
    \E g \in Refreshes :
       /\ ev = Event("fetch_settled", "myorders", "ok", "resolved")
       /\ refreshes[g]["ticker"] = "pending"
       /\ refreshes[g]["myorders"] = "ok"
       /\ ind["myorders"].data = <<orders>>
       /\ ind["ticker"].data = <<>>
       /\ Len(ind["ticker"].errors) > 0

\* C26: a read of price and of midmarket_price yields a record computed from
\* the current ticker record: its updated is the ticker's updated and its
\* errors is the ticker's errors log, whatever the live order book holds.
C26_DerivedFollowTicker ==
    \A book \in Books :
       \A v \in {price, midmarket_price(book)} :
          /\ v.kind = "record"
          /\ v.rec.updated = ind["ticker"].updated
          /\ v.rec.errors = ind["ticker"].errors

\* C27: the indicator records change only in the step an indicator's fetch is
\* answered: start_trading, stop_trading and its cancel's settlement, the
\* ticks, the strategy's runs and settlements, cancel_order and
\* cancel_all_orders and their answers leave every record as it is, loaded
\* or not; and the answer to one indicator's fetch, value or failure, leaves
\* the other indicator's record, the busy flag, is_trading, the timer handle
\* and the timers as they are.
C27_RecordsChangeOnlyOnFetch ==
    [][ /\ (ev'.op # "fetch_settled" => ind' = ind)
        /\ (ev'.op = "fetch_settled"
              => /\ \A j \in Kinds \ {ev'.arg} : ind'[j] = ind[j]
                 /\ busy_executing' = busy_executing
                 /\ is_trading' = is_trading
                 /\ timer' = timer
                 /\ timers' = timers
                 /\ inflight' = inflight) ]_vars

C27_Witness ==
    /\ ev = Event("fetch_settled", "ticker", "e1", "resolved")
    /\ is_trading
    /\ busy_executing
    /\ Running > 0
    /\ ind["myorders"].data # <<>>
    /\ ind["ticker"].data # <<>>
    /\ Len(ind["ticker"].errors) > 0

\* C28: the busy flag guards the strategy across a stop and a restart:
\* start_trading, stop_trading and the stop's settlement leave the flag as
\* it is, and the tick that follows a start_trading made after a resolved
\* stop, while an invocation from before is still running, is skipped and
\* starts no second invocation.
C28_GuardSurvivesRestart ==
    [][ /\ (ev'.op \in {"start_trading", "stop_trading", "stop_settled"}
              => busy_executing' = busy_executing)
        /\ ((/\ ev = Event("start_trading", "restart", "true", "resolved")
             /\ Running > 0
             /\ ev'.op = "tick")
              => /\ ev'.val = "skipped"
                 /\ inflight' = inflight) ]_vars

\* C29 (as claimed): a stop_trading halts only the timer that ran when it
\* was called: when that timer has ended, a start_trading has made a new one
\* and no stop was called since, the settlement of the old stop's cancel
\* and the reaction that follows it leave the timers and is_trading as they
\* are.
C29_StaleStopSparesNewTimer ==
    [][ (/\ ev = Event("cancel_all_orders", "stop", "ok", "resolved")
         /\ ev'.op = "stop_settled"
         /\ ev'.arg = "stale")
           => /\ timers' = timers
              /\ is_trading' = is_trading ]_vars

\* C29 (as the code has it): the reaction of a stop halts the timer the
\* handle names when the reaction runs: once the cancel of a stop called
\* before the current timer was started has settled, the reaction resolves
\* the stop, leaves the handle on the current timer, halts it and leaves
\* is_trading false, and touches no other timer.
C29_StaleStopHaltsCurrentTimer ==
    [][ (/\ ev = Event("cancel_all_orders", "stop", "ok", "resolved")
         /\ ev'.op = "stop_settled"
         /\ ev'.arg = "stale")
           => /\ ev'.out = "resolved"
              /\ timer' = timer
              /\ ~timers'[timer].running
              /\ ~is_trading'
              /\ \A t \in TimerIds \ {timer} : timers'[t] = timers[t] ]_vars

C29_Witness ==
    /\ ev = Event("stop_settled", "stale", "ok", "resolved")
    /\ stale
    /\ ~is_trading
    /\ RunningTimers = {}
    /\ orders = <<>>

\* C30: within one indicator record updated and data are written together:
\* updated is absent exactly when data is, in every state, a partly answered
\* refresh included; either of them changes only in the step that answers
\* this indicator's fetch with a value, and that step writes both, the value
\* received and the time of the step; and once present updated stays.
C30_UpdatedWithData ==
    /\ [](\A k \in Kinds : (ind[k].updated = 0) <=> (ind[k].data = <<>>))
    /\ [][ \A k \in Kinds :
            /\ ((ind'[k].updated # ind[k].updated \/ ind'[k].data # ind[k].data)
                  => (ev'.op = "fetch_settled" /\ ev'.arg = k /\ ev'.val = "ok"))
            /\ ((ev'.op = "fetch_settled" /\ ev'.arg = k /\ ev'.val = "ok")
                  => /\ ind'[k].updated = now
                     /\ \E val \in Payloads(k) : ind'[k].data = <<val>>)
            /\ (ind[k].updated # 0 => ind'[k].updated # 0) ]_vars

C30_Witness ==
    \E g \in Refreshes :
       /\ ev = Event("fetch_settled", "ticker", "ok", "resolved")
       /\ refreshes[g].all = "pending"
       /\ refreshes[g]["myorders"] = "pending"
       /\ ind["ticker"].updated = now
       /\ now > 1
       /\ ind["ticker"].data # <<>>
       /\ ind["myorders"].updated = 0
       /\ ind["myorders"].data = <<>>

====
